---- MODULE Spec2Model ----
(***************************************************************************)
(* A model of questions.py: a two-stage TF-IDF question answering program. *)
(*                                                                         *)
(* Two specifications are given.                                           *)
(*   Spec    the orchestrator main(): one run of the program over a corpus *)
(*           and a query, one action per statement of main().              *)
(*   FnSpec  the ranking functions compute_idfs, top_files, top_sentences  *)
(*           called on arbitrary (bounded) arguments.                      *)
(*                                                                         *)
(* Numbers.  The program computes with floats: idf = math.log(D / df),     *)
(* sums of such logarithms, and densities matches / len.  A logarithm      *)
(* ln(num/den) is represented exactly by the pair [num, den]; the sum of   *)
(* two logarithms is the logarithm of the product, k * ln(x) is ln(x^k),   *)
(* and two values compare as their arguments do (ln is increasing).        *)
(* Densities are exact fractions.  Float rounding is not modelled.         *)
(***************************************************************************)
EXTENDS Integers, Sequences, FiniteSets, TLC

(***************************************************************************)
(* Bounds of the model.                                                    *)
(***************************************************************************)
MaxCorpusLen == 4      \* symbols in the corpus directory (all files together)
MaxTokens == 4         \* symbols in a collection handed to a ranking function
MaxN == 2              \* largest n handed to top_files / top_sentences

(***************************************************************************)
(* Program constants.                                                      *)
(***************************************************************************)
FILE_MATCHES == 1
SENTENCE_MATCHES == 1

(***************************************************************************)
(* Generic helpers.                                                        *)
(***************************************************************************)
Range(s) == {s[i] : i \in DOMAIN s}

Min(a, b) == IF a < b THEN a ELSE b

SeqsUpTo(S, k) == UNION {[1..m -> S] : m \in 0..k}

\* The pieces of s between occurrences of sep (str.split(sep)): always at
\* least one piece, possibly empty.
RECURSIVE SplitOn(_, _)
SplitOn(s, sep) ==
    IF \A i \in DOMAIN s : s[i] # sep
    THEN <<s>>
    ELSE LET i == CHOOSE i \in DOMAIN s :
                      s[i] = sep /\ \A j \in 1..(i - 1) : s[j] # sep
         IN <<SubSeq(s, 1, i - 1)>> \o SplitOn(SubSeq(s, i + 1, Len(s)), sep)

\* seq[:n] for n >= 0
Slice(seq, n) == SubSeq(seq, 1, Min(n, Len(seq)))

(***************************************************************************)
(* Numbers: logarithms of positive rationals, and fractions.               *)
(***************************************************************************)
Log(n, d) == [num |-> n, den |-> d]                  \* math.log(n / d)
Zero == Log(1, 1)                                    \* 0, the empty sum
Add(x, y) == Log(x.num * y.num, x.den * y.den)       \* x + y
Times(k, x) == Log(x.num ^ k, x.den ^ k)             \* k * x, k a count
Less(x, y) == x.num * y.den < y.num * x.den          \* x < y
Same(x, y) == x.num * y.den = y.num * x.den          \* x == y
IsZero(x) == x.num = x.den                           \* x == 0
NonNeg(x) == x.num >= x.den                          \* x >= 0

Frac(n, d) == [n |-> n, d |-> d]                     \* n / d, d > 0
FracLess(x, y) == x.n * y.d < y.n * x.d

\* sum([f[x] for x in S])
RECURSIVE Sum(_, _)
Sum(f, S) ==
    IF S = {} THEN Zero
    ELSE LET x == CHOOSE x \in S : TRUE
         IN Add(f[x], Sum(f, S \ {x}))

(***************************************************************************)
(* sorted(keys, key = ..., reverse = True): a stable sort, descending.     *)
(* greater[i][j] holds when the key of item i is greater than that of      *)
(* item j; items with equal keys keep their order.  order[k] is the index  *)
(* of the item placed k-th.                                                *)
(***************************************************************************)
SortedReverse(n, greater) ==
    LET before(j, i) ==
            greater[j][i] \/ (~greater[i][j] /\ j < i)
        rank(i) == 1 + Cardinality({j \in 1..n : before(j, i)})
    IN [k \in 1..n |-> CHOOSE i \in 1..n : rank(i) = k]

(***************************************************************************)
(* tokenize (lines 67-76).  The text is a sequence of the substrings that  *)
(* nltk.word_tokenize yields, over a small alphabet of raw words.          *)
(***************************************************************************)
NL == "\n"
RawWords == {"the", "Cat", "'dog", "."}
stop_words == {"the"}

lower(word) == IF word = "Cat" THEN "cat" ELSE word

\* word.strip(string.punctuation)
strip(word) ==
    CASE word = "'dog" -> "dog"
      [] word = "." -> ""
      [] OTHER -> word

\* nltk.word_tokenize(text): white space (here the line break) is no token
word_tokenize(text) == SelectSeq(text, LAMBDA w : w # NL)

tokenize(document) ==
    LET lowered == [i \in DOMAIN document |-> lower(document[i])]
        kept == SelectSeq(word_tokenize(lowered),
                          LAMBDA word : ~(word \in stop_words \/ strip(word) = ""))
    IN [i \in DOMAIN kept |-> strip(kept[i])]

(***************************************************************************)
(* compute_idfs (lines 79-98).  A dict is a sequence of [key, words]       *)
(* records with distinct keys, in insertion order.  A call yields          *)
(* [outcome, value]: outcome "ok" with the returned value, or the name of  *)
(* the exception raised.                                                   *)
(***************************************************************************)
Ok(v) == [outcome |-> "ok", value |-> v]
Raise(e) == [outcome |-> e, value |-> <<>>]

\* DocFrequency counting every occurrence of the word instead of every
\* document that contains it
DocFrequency_occurrences(documents, word) ==
    Cardinality(UNION {{<<i, k>> : k \in {k \in DOMAIN documents[i].words :
                                              documents[i].words[k] = word}} :
                          i \in DOMAIN documents})

\* sum([1.0 for words in documents.values() if word in words])
DocFrequency(documents, word) ==
    Cardinality({i \in DOMAIN documents : word \in Range(documents[i].words)})

\* compute_idfs rejecting a collection without entries
compute_idfs_invalid_input(documents) ==
    IF Len(documents) = 0
    THEN Raise("InvalidInput")
    ELSE Ok([word \in UNION {Range(documents[i].words) : i \in DOMAIN documents} |->
                Log(Len(documents), DocFrequency(documents, word))])

compute_idfs(documents) ==
    LET num_docs == Len(documents)
        unique_words == UNION {Range(documents[i].words) : i \in DOMAIN documents}
    IN IF \E word \in unique_words : DocFrequency(documents, word) = 0
       THEN Raise("ZeroDivisionError")
       ELSE Ok([word \in unique_words |-> Log(num_docs, DocFrequency(documents, word))])

(***************************************************************************)
(* top_files and query_tf_idf (lines 101-117).                             *)
(***************************************************************************)
Count(words, w) == Cardinality({i \in DOMAIN words : words[i] = w})

\* query_tf_idf without the term frequency: a query word counts once
query_tf_idf_no_tf(query, words, idfs) ==
    IF \E query_word \in query : query_word \notin DOMAIN idfs
    THEN Raise("KeyError")
    ELSE Ok(Sum([query_word \in query |->
                    Times(IF Count(words, query_word) > 0 THEN 1 ELSE 0, idfs[query_word])],
                query))

query_tf_idf(query, words, idfs) ==
    IF \E query_word \in query : query_word \notin DOMAIN idfs
    THEN Raise("KeyError")
    ELSE Ok(Sum([query_word \in query |-> Times(Count(words, query_word), idfs[query_word])],
                query))

\* top_files keeping only the files that share a word with the query
top_files_matching_only(query, files, idfs, n) ==
    LET key == [i \in DOMAIN files |-> query_tf_idf(query, files[i].words, idfs)]
    IN IF \E i \in DOMAIN files : key[i].outcome # "ok"
       THEN Raise("KeyError")
       ELSE LET order == SortedReverse(Len(files),
                             [i \in DOMAIN files |-> [j \in DOMAIN files |->
                                 Less(key[j].value, key[i].value)]])
                sorted_files == [k \in DOMAIN files |-> files[order[k]].key]
            IN Ok(Slice(SelectSeq(sorted_files,
                                  LAMBDA f : \E e \in Range(files) :
                                                e.key = f /\ Range(e.words) \cap query # {}),
                        n))

top_files(query, files, idfs, n) ==
    LET key == [i \in DOMAIN files |-> query_tf_idf(query, files[i].words, idfs)]
    IN IF \E i \in DOMAIN files : key[i].outcome # "ok"
       THEN Raise("KeyError")
       ELSE LET order == SortedReverse(Len(files),
                             [i \in DOMAIN files |-> [j \in DOMAIN files |->
                                 Less(key[j].value, key[i].value)]])
                sorted_files == [k \in DOMAIN files |-> files[order[k]].key]
            IN Ok(Slice(sorted_files, n))

(***************************************************************************)
(* top_sentences and sentence_idf (lines 120-137).                         *)
(***************************************************************************)
\* the sort key without its second component: no tie-break on density
TupleGreater_first_only(a, b) == Less(b[1], a[1])

\* tuple comparison a > b on (idf sum, density)
TupleGreater(a, b) ==
    \/ Less(b[1], a[1])
    \/ Same(a[1], b[1]) /\ FracLess(b[2], a[2])

sentence_idf(query, words, idfs) ==
    LET matched == {query_word \in query : query_word \in Range(words)}
    IN IF \E query_word \in matched : query_word \notin DOMAIN idfs
       THEN Raise("KeyError")
       ELSE IF Len(words) = 0
       THEN Raise("ZeroDivisionError")
       ELSE Ok(<<Sum([query_word \in matched |-> idfs[query_word]], matched),
                 Frac(Cardinality({i \in DOMAIN words : words[i] \in query}),
                      Len(words))>>)

\* top_sentences sorting without reverse = True
top_sentences_ascending(query, sentences, idfs, n) ==
    LET key == [i \in DOMAIN sentences |-> sentence_idf(query, sentences[i].words, idfs)]
    IN IF \E i \in DOMAIN sentences : key[i].outcome # "ok"
       THEN Raise("KeyError")
       ELSE LET order == SortedReverse(Len(sentences),
                             [i \in DOMAIN sentences |-> [j \in DOMAIN sentences |->
                                 TupleGreater(key[j].value, key[i].value)]])
                sorted_sentences == [k \in DOMAIN sentences |-> sentences[order[k]].key]
            IN Ok(Slice(sorted_sentences, n))

top_sentences(query, sentences, idfs, n) ==
    LET key == [i \in DOMAIN sentences |-> sentence_idf(query, sentences[i].words, idfs)]
    IN IF \E i \in DOMAIN sentences : key[i].outcome # "ok"
       THEN LET first == CHOOSE i \in DOMAIN sentences :
                            /\ key[i].outcome # "ok"
                            /\ \A j \in 1..(i - 1) : key[j].outcome = "ok"
            IN Raise(key[first].outcome)
       ELSE LET order == SortedReverse(Len(sentences),
                             [i \in DOMAIN sentences |-> [j \in DOMAIN sentences |->
                                 TupleGreater(key[i].value, key[j].value)]])
                sorted_sentences == [k \in DOMAIN sentences |-> sentences[order[k]].key]
            IN Ok(Slice(sorted_sentences, n))

(***************************************************************************)
(* State.                                                                  *)
(*   Orchestrator (main, lines 12-47): pc is the statement main() is at,   *)
(*   argc and corpus are the command line and the directory it names, the  *)
(*   other variables are main()'s locals; output is what has been printed  *)
(*   and error the exception (or exit) that ended the run.                 *)
(*   Function calls: call is the call made, ret what it returned.          *)
(***************************************************************************)
VARIABLES pc, argc, corpus, files, file_words, file_idfs, query, filenames,
          sentences, idfs, matches, output, error, call, ret

mainVars == <<pc, argc, corpus, files, file_words, file_idfs, query, filenames,
              sentences, idfs, matches, output, error>>
vars == <<pc, argc, corpus, files, file_words, file_idfs, query, filenames,
          sentences, idfs, matches, output, error, call, ret>>

(***************************************************************************)
(* The corpus directory: a sequence of files in os.listdir order, each a   *)
(* text over RawWords and line breaks.  File i is named i.  Corpora are    *)
(* enumerated as flat symbol sequences cut at FILEBREAK.                   *)
(***************************************************************************)
FILEBREAK == "<file>"

Corpora ==
    {<<>>} \cup {SplitOn(flat, FILEBREAK) :
                    flat \in SeqsUpTo(RawWords \cup {NL, FILEBREAK}, MaxCorpusLen)}

\* What the user may type at the prompt, as word_tokenize sees it.
QueryInputs ==
    {<<>>, <<"the">>, <<"Cat">>, <<"'dog">>, <<"Cat", "'dog">>,
     <<"emu">>, <<"Cat", "emu">>}

NoCall == [fn |-> "none", query |-> {}, docs |-> <<>>, idfs |-> <<>>, n |-> 0]

\* load_files (lines 50-64)
load_files(directory) == [i \in DOMAIN directory |-> [key |-> i, words |-> directory[i]]]

\* nltk.sent_tokenize(passage): a sentence ends with the token "."; text
\* after the last "." is a sentence of its own; an empty passage has none.
RECURSIVE sent_tokenize(_)
sent_tokenize(passage) ==
    IF passage = <<>> THEN <<>>
    ELSE IF \A i \in DOMAIN passage : passage[i] # "."
    THEN <<passage>>
    ELSE LET i == CHOOSE i \in DOMAIN passage :
                      passage[i] = "." /\ \A j \in 1..(i - 1) : passage[j] # "."
         IN <<SubSeq(passage, 1, i)>>
              \o sent_tokenize(SubSeq(passage, i + 1, Len(passage)))

\* d[key] = words on a dict d
DictSet(d, key, words) ==
    IF \E i \in DOMAIN d : d[i].key = key
    THEN [i \in DOMAIN d |-> IF d[i].key = key THEN [key |-> key, words |-> words] ELSE d[i]]
    ELSE Append(d, [key |-> key, words |-> words])

\* d[key]
DictGet(d, key) == (CHOOSE e \in Range(d) : e.key = key).words

\* lines 36-39 without the test of line 38
RECURSIVE AddSentences_unfiltered(_, _)
AddSentences_unfiltered(d, sents) ==
    IF sents = <<>> THEN d
    ELSE AddSentences_unfiltered(DictSet(d, Head(sents), tokenize(Head(sents))), Tail(sents))

\* lines 36-39 over the sentences of one passage
RECURSIVE AddSentences(_, _)
AddSentences(d, sents) ==
    IF sents = <<>> THEN d
    ELSE LET sentence == Head(sents)
             tokens == tokenize(sentence)
         IN AddSentences(IF tokens # <<>> THEN DictSet(d, sentence, tokens) ELSE d,
                         Tail(sents))

\* lines 35-39 over the passages of one file
RECURSIVE AddPassages(_, _)
AddPassages(d, passages) ==
    IF passages = <<>> THEN d
    ELSE AddPassages(AddSentences(d, sent_tokenize(Head(passages))), Tail(passages))

\* lines 33-39
RECURSIVE ExtractFrom(_, _, _)
ExtractFrom(d, names, fs) ==
    IF names = <<>> THEN d
    ELSE ExtractFrom(AddPassages(d, SplitOn(DictGet(fs, Head(names)), NL)),
                     Tail(names), fs)

(***************************************************************************)
(* main (lines 12-47), one action per statement.                           *)
(***************************************************************************)
Init ==
    /\ pc = "start"
    /\ \/ argc = 2 /\ corpus \in Corpora
       \/ argc \in {1, 3} /\ corpus = <<>>
    /\ files = <<>> /\ file_words = <<>> /\ file_idfs = <<>>
    /\ query = {} /\ filenames = <<>> /\ sentences = <<>> /\ idfs = <<>>
    /\ matches = <<>> /\ output = <<>> /\ error = "none"
    /\ call = NoCall /\ ret = Ok(<<>>)

\* lines 15-16
CheckArgs ==
    /\ pc = "start"
    /\ IF argc # 2
       THEN pc' = "exit" /\ error' = "Usage: python questions.py corpus"
       ELSE pc' = "load" /\ error' = error
    /\ UNCHANGED <<argc, corpus, files, file_words, file_idfs, query, filenames,
                   sentences, idfs, matches, output, call, ret>>

\* line 19
LoadFiles ==
    /\ pc = "load"
    /\ files' = load_files(corpus)
    /\ pc' = "tokenize"
    /\ UNCHANGED <<argc, corpus, file_words, file_idfs, query, filenames,
                   sentences, idfs, matches, output, error, call, ret>>

\* lines 20-23
TokenizeFiles ==
    /\ pc = "tokenize"
    /\ file_words' = [i \in DOMAIN files |->
                        [key |-> files[i].key, words |-> tokenize(files[i].words)]]
    /\ pc' = "file_idfs"
    /\ UNCHANGED <<argc, corpus, files, file_idfs, query, filenames,
                   sentences, idfs, matches, output, error, call, ret>>

\* line 24
ComputeFileIdfs ==
    /\ pc = "file_idfs"
    /\ LET r == compute_idfs(file_words)
       IN IF r.outcome = "ok"
          THEN file_idfs' = r.value /\ pc' = "query" /\ error' = error
          ELSE file_idfs' = file_idfs /\ pc' = "raised" /\ error' = r.outcome
    /\ UNCHANGED <<argc, corpus, files, file_words, query, filenames,
                   sentences, idfs, matches, output, call, ret>>

\* line 27
ReadQuery ==
    /\ pc = "query"
    /\ \E input \in QueryInputs : query' = Range(tokenize(input))
    /\ pc' = "top_files"
    /\ UNCHANGED <<argc, corpus, files, file_words, file_idfs, filenames,
                   sentences, idfs, matches, output, error, call, ret>>

\* line 30
TopFiles ==
    /\ pc = "top_files"
    /\ LET r == top_files(query, file_words, file_idfs, FILE_MATCHES)
       IN IF r.outcome = "ok"
          THEN filenames' = r.value /\ pc' = "extract" /\ error' = error
          ELSE filenames' = filenames /\ pc' = "raised" /\ error' = r.outcome
    /\ UNCHANGED <<argc, corpus, files, file_words, file_idfs, query,
                   sentences, idfs, matches, output, call, ret>>

\* lines 33-39
ExtractSentences ==
    /\ pc = "extract"
    /\ sentences' = ExtractFrom(<<>>, filenames, files)
    /\ pc' = "sentence_idfs"
    /\ UNCHANGED <<argc, corpus, files, file_words, file_idfs, query, filenames,
                   idfs, matches, output, error, call, ret>>

\* line 45 handed the file-level table: line 42 keeps file_idfs
ComputeSentenceIdfs_reuse ==
    /\ pc = "sentence_idfs"
    /\ idfs' = file_idfs
    /\ pc' = "top_sentences"
    /\ UNCHANGED <<argc, corpus, files, file_words, file_idfs, query, filenames,
                   sentences, matches, output, error, call, ret>>

\* line 42
ComputeSentenceIdfs ==
    /\ pc = "sentence_idfs"
    /\ LET r == compute_idfs(sentences)
       IN IF r.outcome = "ok"
          THEN idfs' = r.value /\ pc' = "top_sentences" /\ error' = error
          ELSE idfs' = idfs /\ pc' = "raised" /\ error' = r.outcome
    /\ UNCHANGED <<argc, corpus, files, file_words, file_idfs, query, filenames,
                   sentences, matches, output, call, ret>>

\* line 45
TopSentences ==
    /\ pc = "top_sentences"
    /\ LET r == top_sentences(query, sentences, idfs, SENTENCE_MATCHES)
       IN IF r.outcome = "ok"
          THEN matches' = r.value /\ pc' = "print" /\ error' = error
          ELSE matches' = matches /\ pc' = "raised" /\ error' = r.outcome
    /\ UNCHANGED <<argc, corpus, files, file_words, file_idfs, query, filenames,
                   sentences, idfs, output, call, ret>>

\* lines 46-47
PrintMatches ==
    /\ pc = "print"
    /\ output' = matches
    /\ pc' = "done"
    /\ UNCHANGED <<argc, corpus, files, file_words, file_idfs, query, filenames,
                   sentences, idfs, matches, error, call, ret>>

Next ==
    \/ CheckArgs
    \/ LoadFiles
    \/ TokenizeFiles
    \/ ComputeFileIdfs
    \/ ReadQuery
    \/ TopFiles
    \/ ExtractSentences
    \/ ComputeSentenceIdfs
    \/ TopSentences
    \/ PrintMatches

Spec == Init /\ [][Next]_vars

(***************************************************************************)
(* FnSpec: one call of compute_idfs, top_files or top_sentences on         *)
(* arguments drawn from bounded sets.  Entry i of a collection has key i.  *)
(***************************************************************************)
Tokens == {"cat", "dog", "emu"}
QueryWords == {"cat", "dog"}
SEP == "|"

Collections ==
    {<<>>} \cup
    {LET lists == SplitOn(flat, SEP)
     IN [i \in DOMAIN lists |-> [key |-> i, words |-> lists[i]]] :
        flat \in SeqsUpTo(Tokens \cup {SEP}, MaxTokens)}

IdfValues == {Log(1, 1), Log(2, 1)}
IdfTables == UNION {[K -> IdfValues] : K \in SUBSET Tokens}

FnInit ==
    /\ pc = "fn" /\ argc = 0 /\ corpus = <<>>
    /\ files = <<>> /\ file_words = <<>> /\ file_idfs = <<>>
    /\ query = {} /\ filenames = <<>> /\ sentences = <<>> /\ idfs = <<>>
    /\ matches = <<>> /\ output = <<>> /\ error = "none"
    /\ call = NoCall /\ ret = Ok(<<>>)

CallComputeIdfs ==
    /\ call.fn = "none"
    /\ \E docs \in Collections :
          /\ call' = [fn |-> "compute_idfs", query |-> {}, docs |-> docs,
                      idfs |-> <<>>, n |-> 0]
          /\ ret' = compute_idfs(docs)
    /\ UNCHANGED mainVars

CallTopFiles ==
    /\ call.fn = "none"
    /\ \E q \in SUBSET QueryWords, docs \in Collections, table \in IdfTables, n \in 0..MaxN :
          /\ call' = [fn |-> "top_files", query |-> q, docs |-> docs,
                      idfs |-> table, n |-> n]
          /\ ret' = top_files(q, docs, table, n)
    /\ UNCHANGED mainVars

CallTopSentences ==
    /\ call.fn = "none"
    /\ \E q \in SUBSET QueryWords, docs \in Collections, table \in IdfTables, n \in 0..MaxN :
          /\ call' = [fn |-> "top_sentences", query |-> q, docs |-> docs,
                      idfs |-> table, n |-> n]
          /\ ret' = top_sentences(q, docs, table, n)
    /\ UNCHANGED mainVars

FnNext ==
    \/ CallComputeIdfs
    \/ CallTopFiles
    \/ CallTopSentences

FnSpec == FnInit /\ [][FnNext]_vars

(***************************************************************************)
(* Quantities the properties are stated in.                                *)
(***************************************************************************)
\* matched_idf_sum(s): the idf of the query words present in the sentence,
\* a word that is no key of the table counting 0
MatchedIdfSum(q, words, table) ==
    LET matched == {w \in q : w \in Range(words) /\ w \in DOMAIN table}
    IN Sum([w \in matched |-> table[w]], matched)

\* density(s) = (tokens of s that are query words) / (tokens of s)
Density(q, words) ==
    Frac(Cardinality({i \in DOMAIN words : words[i] \in q}), Len(words))

\* Score(file) = sum over w in query of count(w) * idf.get(w, 0)
Score(q, words, table) ==
    LET known == {w \in q : w \in DOMAIN table}
    IN Sum([w \in known |-> Times(Count(words, w), table[w])], known)

\* key i is placed before key j in the returned list (a key that was cut
\* off by the slice counts as placed after every returned one)
PlacedBefore(result, i, j) ==
    (\E b \in DOMAIN result : result[b] = j) =>
        \E a \in DOMAIN result : result[a] = i /\ \A b \in DOMAIN result : result[b] = j => a < b

NoDuplicates(result) ==
    \A a, b \in DOMAIN result : result[a] = result[b] => a = b

\* the sentences lines 35-36 find in a text
RawSentences(text) ==
    UNION {Range(sent_tokenize(passage)) : passage \in Range(SplitOn(text, NL))}

(***************************************************************************)
(* C1 (FnSpec).  top_files never raises a lookup error: whatever the query *)
(* and the IDF table, a query word that is no key of the table counts 0    *)
(* and the call returns a ranking.                                         *)
(***************************************************************************)
C1_TopFilesNeverRaises ==
    call.fn = "top_files" => ret.outcome = "ok"

(***************************************************************************)
(* C2 (Spec), as stated: compute_idfs on a collection with no entries      *)
(* fails and ends the run, so the run never gets past a compute_idfs call  *)
(* on an empty collection.                                                 *)
(***************************************************************************)
C2_EmptyCollectionEndsRun ==
    /\ pc = "query" => file_words # <<>>
    /\ pc = "top_sentences" => sentences # <<>>

(***************************************************************************)
(* C2 (Spec), amended: compute_idfs on a collection with no entries        *)
(* returns the empty table without an error and the run goes on: the       *)
(* ranking of no sentences is empty, nothing is printed, the run ends      *)
(* normally.                                                               *)
(***************************************************************************)
C2_EmptyCollectionEmptyTable ==
    /\ (pc = "query" /\ file_words = <<>>) => (DOMAIN file_idfs = {} /\ error = "none")
    /\ (pc = "top_sentences" /\ sentences = <<>>) => (DOMAIN idfs = {} /\ error = "none")
    /\ (pc = "raised" /\ error # "KeyError") => (file_words # <<>> /\ sentences # <<>>)
    /\ (pc = "done" /\ sentences = <<>>) => (matches = <<>> /\ output = <<>> /\ error = "none")

C2_Witness ==
    /\ pc = "done" /\ files # <<>> /\ sentences = <<>>
    /\ DOMAIN idfs = {} /\ output = <<>>

(***************************************************************************)
(* C3 (FnSpec).  top_sentences orders by (matched_idf_sum, density), both  *)
(* descending: a sentence with a higher sum comes first whatever the       *)
(* densities, and of two sentences with equal sums the denser comes first. *)
(***************************************************************************)
C3_LexicographicOrder ==
    (call.fn = "top_sentences" /\ ret.outcome = "ok") =>
        \A i, j \in DOMAIN call.docs :
            LET si == MatchedIdfSum(call.query, call.docs[i].words, call.idfs)
                sj == MatchedIdfSum(call.query, call.docs[j].words, call.idfs)
                di == Density(call.query, call.docs[i].words)
                dj == Density(call.query, call.docs[j].words)
            IN (Less(sj, si) \/ (Same(si, sj) /\ FracLess(dj, di)))
                  => PlacedBefore(ret.value, i, j)

C3_Witness ==
    /\ call.fn = "top_sentences" /\ ret.outcome = "ok"
    /\ Len(call.docs) = 2 /\ ret.value = <<2, 1>>
    /\ LET s1 == MatchedIdfSum(call.query, call.docs[1].words, call.idfs)
           s2 == MatchedIdfSum(call.query, call.docs[2].words, call.idfs)
       IN /\ Same(s1, s2) /\ ~IsZero(s1)
          /\ FracLess(Density(call.query, call.docs[1].words),
                      Density(call.query, call.docs[2].words))

(***************************************************************************)
(* C4 (FnSpec).  On a non-empty collection of D token lists compute_idfs   *)
(* returns a table whose keys are exactly the tokens that occur in some    *)
(* entry, each with value ln(D / df(t)), df(t) the number of entries that  *)
(* contain t; every value is >= 0, and is 0 exactly when t occurs in every *)
(* entry.                                                                  *)
(***************************************************************************)
C4_IdfTable ==
    (call.fn = "compute_idfs" /\ call.docs # <<>>) =>
        /\ ret.outcome = "ok"
        /\ DOMAIN ret.value = {t \in Tokens : \E i \in DOMAIN call.docs :
                                                \E k \in DOMAIN call.docs[i].words :
                                                    call.docs[i].words[k] = t}
        /\ \A t \in DOMAIN ret.value :
              LET df == Cardinality({i \in DOMAIN call.docs : Count(call.docs[i].words, t) > 0})
              IN /\ df >= 1
                 /\ ret.value[t] = Log(Len(call.docs), df)
                 /\ NonNeg(ret.value[t])
                 /\ IsZero(ret.value[t]) <=>
                        \A i \in DOMAIN call.docs : Count(call.docs[i].words, t) > 0

C4_Witness ==
    /\ call.fn = "compute_idfs" /\ ret.outcome = "ok" /\ Len(call.docs) >= 2
    /\ \E t \in DOMAIN ret.value :
          /\ IsZero(ret.value[t])
          /\ \E i \in DOMAIN call.docs : Count(call.docs[i].words, t) >= 2

(***************************************************************************)
(* C5 (Spec), as stated: over a corpus of one file, top_files returns that *)
(* file if and only if the file's tokens and the query have a word in      *)
(* common.                                                                 *)
(***************************************************************************)
C5_SingleFileIffIntersects ==
    (pc = "extract" /\ Len(files) = 1) =>
        (filenames = <<1>> <=> Range(file_words[1].words) \cap query # {})

(***************************************************************************)
(* C5 (Spec), amended: over a corpus of one file, a call of top_files that *)
(* returns returns that file, whether or not the file's tokens and the     *)
(* query have a word in common; the call returns exactly when every query  *)
(* word occurs in the file (the empty query included) and raises KeyError  *)
(* otherwise.                                                              *)
(***************************************************************************)
C5_SingleFileAlwaysReturned ==
    Len(files) = 1 =>
        /\ pc \in {"extract", "sentence_idfs", "top_sentences", "print", "done"} =>
              (filenames = <<1>> /\ query \subseteq Range(file_words[1].words))
        /\ pc = "raised" =>
              (error = "KeyError" /\ ~(query \subseteq Range(file_words[1].words)))

C5_Witness ==
    /\ pc = "extract" /\ Len(files) = 1 /\ filenames = <<1>>
    /\ file_words[1].words # <<>>
    /\ Range(file_words[1].words) \cap query = {}

(***************************************************************************)
(* C6 (FnSpec).  top_sentences never fails on a missing key: with          *)
(* non-empty token lists, a query word that is not in a sentence or is no  *)
(* key of the IDF table counts 0 and the call returns.                     *)
(***************************************************************************)
C6_TopSentencesNeverRaises ==
    (call.fn = "top_sentences" /\ \A i \in DOMAIN call.docs : call.docs[i].words # <<>>)
        => ret.outcome = "ok"

(***************************************************************************)
(* C7 (FnSpec).  When every query word is a key of the IDF table,          *)
(* top_files returns the first min(n, number of files) files in            *)
(* non-increasing order of TF-IDF score, files of equal score in the order *)
(* of the file mapping, without duplicates.                                *)
(***************************************************************************)
C7_TopFilesOrder ==
    (call.fn = "top_files" /\ call.query \subseteq DOMAIN call.idfs) =>
        /\ ret.outcome = "ok"
        /\ Len(ret.value) = Min(call.n, Len(call.docs))
        /\ Range(ret.value) \subseteq DOMAIN call.docs
        /\ NoDuplicates(ret.value)
        /\ \A i, j \in DOMAIN call.docs :
              LET si == Score(call.query, call.docs[i].words, call.idfs)
                  sj == Score(call.query, call.docs[j].words, call.idfs)
              IN (Less(sj, si) \/ (Same(si, sj) /\ i < j))
                    => PlacedBefore(ret.value, i, j)

C7_Witness ==
    /\ call.fn = "top_files" /\ ret.outcome = "ok"
    /\ Len(call.docs) = 3 /\ call.n = 2 /\ ret.value = <<2, 1>>
    /\ Same(Score(call.query, call.docs[1].words, call.idfs),
            Score(call.query, call.docs[3].words, call.idfs))

(***************************************************************************)
(* C8 (FnSpec).  With non-empty token lists and a non-negative IDF table   *)
(* that has every token of the sentences as a key, a sentence without a    *)
(* query word has matched_idf_sum 0 and is never placed before a sentence  *)
(* with a query word; at most n sentences are returned.                    *)
(***************************************************************************)
C8_UnmatchedRankLast ==
    ( /\ call.fn = "top_sentences"
      /\ \A i \in DOMAIN call.docs :
            call.docs[i].words # <<>> /\ Range(call.docs[i].words) \subseteq DOMAIN call.idfs
      /\ \A w \in DOMAIN call.idfs : NonNeg(call.idfs[w]) ) =>
        /\ ret.outcome = "ok"
        /\ Len(ret.value) <= call.n
        /\ \A i, j \in DOMAIN call.docs :
              ( /\ Range(call.docs[i].words) \cap call.query = {}
                /\ Range(call.docs[j].words) \cap call.query # {} ) =>
                  /\ IsZero(sentence_idf(call.query, call.docs[i].words, call.idfs).value[1])
                  /\ PlacedBefore(ret.value, j, i)
                  /\ ~(\E a, b \in DOMAIN ret.value :
                          a < b /\ ret.value[a] = i /\ ret.value[b] = j)

C8_Witness ==
    /\ call.fn = "top_sentences" /\ ret.outcome = "ok"
    /\ Len(call.docs) = 2 /\ ret.value = <<2, 1>>
    /\ Range(call.docs[1].words) \cap call.query = {}
    /\ Range(call.docs[2].words) \cap call.query # {}
    /\ Range(call.docs[1].words) \cup Range(call.docs[2].words) \subseteq DOMAIN call.idfs
    /\ IsZero(MatchedIdfSum(call.query, call.docs[2].words, call.idfs))

(***************************************************************************)
(* C9 (Spec).  A sentence whose token list is empty is dropped before      *)
(* ranking: every token list of the sentence mapping has a token, and the  *)
(* density computation never divides by zero.                              *)
(***************************************************************************)
C9_NoEmptySentence ==
    /\ \A i \in DOMAIN sentences : sentences[i].words # <<>>
    /\ error # "ZeroDivisionError"

C9_Witness ==
    /\ pc = "done" /\ matches # <<>> /\ filenames # <<>>
    /\ \E s \in RawSentences(DictGet(files, filenames[1])) : tokenize(s) = <<>>

(***************************************************************************)
(* C10 (Spec).  The steps of a run follow the pipeline order, and the IDF  *)
(* table handed to top_sentences is computed over exactly the sentences    *)
(* with a token of the files top_files returned: not the file-level table, *)
(* no sentence of another file; so every token of a ranked sentence is a   *)
(* key of that table.                                                      *)
(***************************************************************************)
Pipeline ==
    <<"start", "load", "tokenize", "file_idfs", "query", "top_files", "extract",
      "sentence_idfs", "top_sentences", "print", "done">>

C10_StepOrder ==
    \/ pc' \in {"exit", "raised"}
    \/ \E k \in 1..(Len(Pipeline) - 1) : pc = Pipeline[k] /\ pc' = Pipeline[k + 1]

C10_FreshTable ==
    pc \in {"top_sentences", "print", "done"} =>
        /\ {sentences[i].key : i \in DOMAIN sentences} =
              UNION {{s \in RawSentences(DictGet(files, f)) : tokenize(s) # <<>>} :
                        f \in Range(filenames)}
        /\ \A i \in DOMAIN sentences :
              /\ sentences[i].words = tokenize(sentences[i].key)
              /\ Range(sentences[i].words) \subseteq DOMAIN idfs
        /\ \A w \in DOMAIN idfs :
              /\ \E i \in DOMAIN sentences : w \in Range(sentences[i].words)
              /\ idfs[w] = Log(Len(sentences),
                               Cardinality({i \in DOMAIN sentences :
                                               w \in Range(sentences[i].words)}))

C10_PipelineFreshIdf ==
    []C10_FreshTable /\ [][C10_StepOrder]_vars

C10_Witness ==
    /\ pc = "done" /\ Len(files) = 2 /\ matches # <<>>
    /\ idfs # file_idfs
    /\ \E i \in DOMAIN files :
          /\ files[i].key \notin Range(filenames)
          /\ \E s \in RawSentences(files[i].words) :
                tokenize(s) # <<>> /\ \A k \in DOMAIN sentences : sentences[k].key # s

====
